---- MODULE Spec2Model ----
(***************************************************************************)
(* Model of the analysis-aggregation pipeline of Claude UX Consultant:     *)
(* UXOrchestrator (src/unnamed/part_001, orchestrator.js), the analyzer    *)
(* entry points it calls, and its summary/scoring engine.                  *)
(***************************************************************************)
EXTENDS Integers, Sequences, FiniteSets, TLC

\* ------------------------------------------------------------------------
\* Bounds
\* ------------------------------------------------------------------------
MaxPageProblems == 1   \* a page shows at most this many of the modelled DOM findings
MaxCalls == 2          \* analyzePage calls made on one orchestrator
MaxIssues == 4         \* length of the issue lists given to the scoring engine alone
MaxRuns == 2           \* times calculateSummary is run on one result
MaxCloses == 3         \* close() calls made on one orchestrator

\* ------------------------------------------------------------------------
\* JavaScript values: numbers, NaN, undefined, strings
\* ------------------------------------------------------------------------
Num(x) == [k |-> "number", n |-> x, s |-> ""]
Str(t) == [k |-> "string", n |-> 0, s |-> t]
NaN == [k |-> "NaN", n |-> 0, s |-> ""]
Undefined == [k |-> "undefined", n |-> 0, s |-> ""]
Bool(b) == [k |-> "boolean", n |-> IF b THEN 1 ELSE 0, s |-> ""]

\* ToNumber as applied by the arithmetic operators: undefined becomes NaN
ToNumber(v) == IF v.k = "number" THEN v ELSE NaN
JsMul(a, b) ==
  IF ToNumber(a).k = "NaN" \/ ToNumber(b).k = "NaN" THEN NaN ELSE Num(a.n * b.n)
JsSub(a, b) ==
  IF ToNumber(a).k = "NaN" \/ ToNumber(b).k = "NaN" THEN NaN ELSE Num(a.n - b.n)
JsAdd(a, b) ==
  IF ToNumber(a).k = "NaN" \/ ToNumber(b).k = "NaN" THEN NaN ELSE Num(a.n + b.n)
\* Math.max returns NaN as soon as one argument is NaN
MathMax(a, b) ==
  IF ToNumber(a).k = "NaN" \/ ToNumber(b).k = "NaN" THEN NaN
  ELSE IF a.n >= b.n THEN Num(a.n) ELSE Num(b.n)

EmptyObject == [key \in {} |-> Undefined]
\* Object.assign(target, source): the source's value wins on every shared key
ObjectAssign(target, source) ==
  [key \in (DOMAIN target) \cup (DOMAIN source) |->
     IF key \in DOMAIN source THEN source[key] ELSE target[key]]

\* ------------------------------------------------------------------------
\* Findings
\* ------------------------------------------------------------------------
Issue(type, severity, impact, title) ==
  [type |-> type, severity |-> severity, impact |-> impact, title |-> title]
\* recommendations carry no severity and, in every analyzer, no effort field
Recommendation(type, impact, title) ==
  [type |-> type, impact |-> impact, effort |-> "undefined", title |-> title]

Fragment(issues, recommendations, metrics, scores) ==
  [issues |-> issues, recommendations |-> recommendations,
   metrics |-> metrics, scores |-> scores]

If(cond, seq) == IF cond THEN seq ELSE <<>>

\* ------------------------------------------------------------------------
\* Pages: the DOM findings a loaded page can show; a page is the smallest
\* document showing them (no console errors, no slow resources, headings only
\* where a heading finding needs them)
\* ------------------------------------------------------------------------
Features == {"brokenImages", "imagesWithoutAlt", "noMainLandmark", "largeDom",
             "headingJumps", "imagesWithoutDimensions", "noViewportMeta",
             "unlabeledButton"}
Pages == {p \in SUBSET Features : Cardinality(p) <= MaxPageProblems}

\* ------------------------------------------------------------------------
\* Analyzer entry points (each a function of the page it is given)
\* ------------------------------------------------------------------------
quickScan(page) ==
  Fragment(If("brokenImages" \in page,
              <<Issue("bug", "critical", "high", "Broken Images Detected")>>),
           <<>>,
           "consoleErrors" :> Num(0),
           EmptyObject)

quickCheck(page) ==
  LET issues == If("imagesWithoutAlt" \in page,
                   <<Issue("accessibility", "high", "high", "Missing Alt Text")>>)
  IN Fragment(issues,
              If("noMainLandmark" \in page,
                 <<Recommendation("accessibility", "medium", "Add Main Landmark")>>),
              "accessibilityQuickScore" :> MathMax(Num(0), Num(100 - Len(issues) * 15)),
              EmptyObject)

quickMetrics(page) ==
  LET large == "largeDom" \in page
  IN Fragment(If(large, <<Issue("performance", "medium", "medium", "Large DOM Size")>>),
              <<>>,
              "performanceScore" :> MathMax(Num(0), Num(IF large THEN 80 ELSE 100)),
              EmptyObject)

\* a full audit that returns its own findings without those of the fast pass
fullAuditOwnFindings(page) ==
  LET quickResults == quickCheck(page)
      issues == If("headingJumps" \in page,
                   <<Issue("accessibility", "medium", "medium", "Heading Structure Issues")>>)
  IN Fragment(issues,
              <<>>,
              quickResults.metrics,
              ("accessibilityScore" :> MathMax(Num(0), Num(100 - Len(issues) * 10)))
                @@ ("wcagCompliance" :> Str(IF Len(issues) = 0 THEN "AA" ELSE "Below AA")))

fullAudit(page) ==
  LET quickResults == quickCheck(page)
      issues == If("headingJumps" \in page,
                   <<Issue("accessibility", "medium", "medium", "Heading Structure Issues")>>)
  IN Fragment(quickResults.issues \o issues,
              quickResults.recommendations,
              quickResults.metrics,
              ("accessibilityScore" :> MathMax(Num(0), Num(100 - Len(issues) * 10)))
                @@ ("wcagCompliance" :> Str(IF Len(issues) = 0 THEN "AA" ELSE "Below AA")))

basicAnalysis(page) ==
  Fragment(If("imagesWithoutDimensions" \in page,
              <<Issue("visual", "medium", "medium", "Images Without Dimensions")>>),
           <<>>,
           "totalHeadings" :> Num(IF "headingJumps" \in page THEN 2 ELSE 0),
           EmptyObject)

comprehensiveAnalysis(page) ==
  LET basicResults == basicAnalysis(page)
  IN Fragment(basicResults.issues,
              basicResults.recommendations,
              basicResults.metrics,
              "readabilityScore" :> MathMax(Num(0), Num(100)))

detailedMetrics(page) ==
  LET quickResults == quickMetrics(page)
  IN Fragment(quickResults.issues,
              quickResults.recommendations,
              quickResults.metrics @@ ("coreWebVitalsScore" :> MathMax(Num(0), Num(100)))
                @@ ("slowResources" :> Num(0)),
              ("performanceScore" :> quickResults.metrics["performanceScore"])
                @@ ("coreWebVitalsScore" :> MathMax(Num(0), Num(100))))

quickMobileCheck(page) ==
  Fragment(If("noViewportMeta" \in page,
              <<Issue("mobile", "high", "high", "Missing Viewport Meta Tag")>>),
           <<>>,
           "hasViewportMeta" :> Bool("noViewportMeta" \notin page),
           EmptyObject)

responsivenessTest(page) ==
  LET quickResults == quickMobileCheck(page)
  IN Fragment(quickResults.issues, quickResults.recommendations,
              quickResults.metrics, EmptyObject)

fullMobileAudit(page) ==
  LET responsiveResults == responsivenessTest(page)
  IN Fragment(responsiveResults.issues, responsiveResults.recommendations,
              responsiveResults.metrics, EmptyObject)

\* selector = "" stands for a call without selector
elementAnalysis(page, selector) ==
  IF selector = "" THEN basicAnalysis(page)
  ELSE Fragment(<<>>, <<>>, EmptyObject, EmptyObject)

elementCheck(page, selector) ==
  IF selector = "" THEN quickCheck(page)
  ELSE Fragment(If("unlabeledButton" \in page,
                   <<Issue("accessibility", "high", "high", "Button 1 Missing Label")>>),
                <<>>, EmptyObject, EmptyObject)

\* ------------------------------------------------------------------------
\* Summary / scoring engine
\* ------------------------------------------------------------------------
\* results.summary = {} : every property read yields undefined
EmptySummary ==
  [totalIssues |-> Undefined, criticalIssues |-> Undefined, highIssues |-> Undefined,
   mediumIssues |-> Undefined, recommendations |-> Undefined, overallScore |-> Undefined,
   estimatedFixTime |-> Undefined, priorityActions |-> [defined |-> FALSE, items |-> <<>>],
   quickWins |-> Undefined]

IsCritical(i) == i.severity = "critical" \/ i.impact = "high"
IsHigh(i) == i.severity = "high" \/ i.impact = "medium"
IsMedium(i) == i.severity = "medium" \/ i.impact = "low"

\* reads the counts of the summary stored in the result it is given
calculateOverallScore(results) ==
  LET maxScore == Num(100)
      criticalPenalty == JsMul(results.summary.criticalIssues, Num(20))
      highPenalty == JsMul(results.summary.highIssues, Num(10))
      mediumPenalty == JsMul(results.summary.mediumIssues, Num(5))
  IN MathMax(Num(0),
             JsSub(JsSub(JsSub(maxScore, criticalPenalty), highPenalty), mediumPenalty))

\* a cost table without the low entry
timeEstimatesWithoutLow(severity) ==
  CASE severity = "critical" -> 120
    [] severity = "high" -> 60
    [] severity = "medium" -> 30
    [] OTHER -> 30

\* timeEstimates[severity] || 30
timeEstimates(severity) ==
  CASE severity = "critical" -> 120
    [] severity = "high" -> 60
    [] severity = "medium" -> 30
    [] severity = "low" -> 15
    [] OTHER -> 30

estimateFixTime(issues) ==
  LET severityOf(i) == IF i.severity # "undefined" THEN i.severity
                       ELSE IF i.impact # "undefined" THEN i.impact ELSE "medium"
      total[n \in 0..Len(issues)] ==
        IF n = 0 THEN 0 ELSE total[n - 1] + timeEstimates(severityOf(issues[n]))
  IN total[Len(issues)]

\* the filter and the map without the slice(0, 3)
getPriorityActionsUnsliced(issues) ==
  LET filtered == SelectSeq(issues, IsCritical)
  IN [n \in 1..Len(filtered) |->
        [title |-> filtered[n].title,
         impact |-> IF filtered[n].impact # "undefined" THEN filtered[n].impact
                    ELSE filtered[n].severity]]

getPriorityActions(issues) ==
  LET filtered == SelectSeq(issues, IsCritical)
      sliced == SubSeq(filtered, 1, IF Len(filtered) < 3 THEN Len(filtered) ELSE 3)
  IN [n \in 1..Len(sliced) |->
        [title |-> sliced[n].title,
         impact |-> IF sliced[n].impact # "undefined" THEN sliced[n].impact
                    ELSE sliced[n].severity]]

IsQuickWin(r) == r.effort = "low" \/ r.impact = "quick"

\* a summary whose critical bucket counts the severity critical only
IsSeverityCritical(i) == i.severity = "critical"
calculateSummaryBySeverity(results) ==
  [results EXCEPT !.summary =
     [totalIssues |-> Num(Len(results.issues)),
      criticalIssues |-> Num(Len(SelectSeq(results.issues, IsSeverityCritical))),
      highIssues |-> Num(Len(SelectSeq(results.issues, IsHigh))),
      mediumIssues |-> Num(Len(SelectSeq(results.issues, IsMedium))),
      recommendations |-> Num(Len(results.recommendations)),
      overallScore |-> calculateOverallScore(results),
      estimatedFixTime |-> Num(estimateFixTime(results.issues)),
      priorityActions |-> [defined |-> TRUE, items |-> getPriorityActions(results.issues)],
      quickWins |-> Num(Len(SelectSeq(results.recommendations, IsQuickWin)))]]

calculateSummary(results) ==
  [results EXCEPT !.summary =
     [totalIssues |-> Num(Len(results.issues)),
      criticalIssues |-> Num(Len(SelectSeq(results.issues, IsCritical))),
      highIssues |-> Num(Len(SelectSeq(results.issues, IsHigh))),
      mediumIssues |-> Num(Len(SelectSeq(results.issues, IsMedium))),
      recommendations |-> Num(Len(results.recommendations)),
      overallScore |-> calculateOverallScore(results),
      estimatedFixTime |-> Num(estimateFixTime(results.issues)),
      priorityActions |-> [defined |-> TRUE, items |-> getPriorityActions(results.issues)],
      quickWins |-> Num(Len(SelectSeq(results.recommendations, IsQuickWin)))]]

\* ------------------------------------------------------------------------
\* Result object and merging
\* ------------------------------------------------------------------------
NewResults(t) ==
  [analysisType |-> t, issues |-> <<>>, recommendations |-> <<>>, screenshots |-> <<>>,
   metrics |-> EmptyObject, scores |-> EmptyObject, summary |-> EmptySummary,
   error |-> "undefined"]

QuickBatch == <<"quickScan", "quickCheck", "quickMetrics">>
DeepBatch == <<"fullAudit", "comprehensiveAnalysis", "detailedMetrics", "responsivenessTest">>
EntryPoints == {"quickScan", "quickCheck", "quickMetrics", "fullAudit",
                "comprehensiveAnalysis", "detailedMetrics", "responsivenessTest",
                "elementAnalysis", "elementCheck", "fullMobileAudit"}
Range(seq) == {seq[n] : n \in 1..Len(seq)}

\* the fragment an entry point resolves with on the given page
Value(ep, pg, sel) ==
  CASE ep = "quickScan" -> quickScan(pg)
    [] ep = "quickCheck" -> quickCheck(pg)
    [] ep = "quickMetrics" -> quickMetrics(pg)
    [] ep = "fullAudit" -> fullAudit(pg)
    [] ep = "comprehensiveAnalysis" -> comprehensiveAnalysis(pg)
    [] ep = "detailedMetrics" -> detailedMetrics(pg)
    [] ep = "responsivenessTest" -> responsivenessTest(pg)
    [] ep = "elementAnalysis" -> elementAnalysis(pg, sel)
    [] ep = "elementCheck" -> elementCheck(pg, sel)
    [] ep = "fullMobileAudit" -> fullMobileAudit(pg)

\* body of the forEach of runQuickAnalysis
MergeQuick(r, value) ==
  [r EXCEPT !.issues = @ \o value.issues,
            !.recommendations = @ \o value.recommendations,
            !.metrics = ObjectAssign(@, value.metrics)]

\* body of the forEach of runDeepAnalysis
MergeDeep(r, value) ==
  [r EXCEPT !.issues = @ \o value.issues,
            !.recommendations = @ \o value.recommendations,
            !.metrics = ObjectAssign(@, value.metrics),
            !.scores = ObjectAssign(@, value.scores)]

\* a merge that gives up at the first rejected entry, as Promise.all would
ForEachUntilRejected(r, batch, status, pg, deep) ==
  LET acc[n \in 0..Len(batch)] ==
        IF n = 0 THEN r
        ELSE IF \E m \in 1..n : status[batch[m]] # "fulfilled" THEN acc[n - 1]
        ELSE IF deep THEN MergeDeep(acc[n - 1], Value(batch[n], pg, ""))
        ELSE MergeQuick(acc[n - 1], Value(batch[n], pg, ""))
  IN acc[Len(batch)]

\* analysisResults.forEach over the settled batch, in array order
ForEachSettled(r, batch, status, pg, deep) ==
  LET acc[n \in 0..Len(batch)] ==
        IF n = 0 THEN r
        ELSE IF status[batch[n]] # "fulfilled" THEN acc[n - 1]
        ELSE IF deep THEN MergeDeep(acc[n - 1], Value(batch[n], pg, ""))
        ELSE MergeQuick(acc[n - 1], Value(batch[n], pg, ""))
  IN acc[Len(batch)]

\* an array of settlements in the order in which the promises settled
AllSettledInCompletionOrder(batch, order) ==
  SelectSeq(order, LAMBDA ep : ep \in Range(batch))

\* Promise.allSettled(analyses): the array it resolves with has one entry per
\* promise, at the promise's position in analyses, whatever the settling order
AllSettled(batch, order) == batch

\* a catch block that forgets to record the message
CatchKeepsResults(r, message) == r

\* catch (error) { results.error = error.message; return results; }
CatchHandler(r, message) == [r EXCEPT !.error = message]

\* ------------------------------------------------------------------------
\* State
\* ------------------------------------------------------------------------
VARIABLES
  browser,       \* this.browser / this.context: "null", "open" or "closed"
  pc,            \* position of the analyzePage call in progress
  ncalls,        \* analyzePage calls started so far
  tier,          \* analysisType of the call
  selector,      \* options.selector of the call ("" when absent)
  page,          \* what the page loaded by the call shows
  results,       \* the results object of the call
  calls,         \* entry point -> "notrun" | "pending" | "fulfilled" | "rejected"
  failed,        \* the step whose error reached the catch block, or "none"
  outcome,       \* "none" | "pending" | "returned" | "threw"
  openPages,     \* pages of the browser that are open
  openContexts,  \* mobile contexts of the browser that are open
  runs,          \* calculateSummary runs made on the result (scoring engine alone)
  settleOrder,   \* history: the analyzer promises of the call in the order they settled
  session,       \* history: close() calls made, sessions released, calls that threw
  cli,           \* the claude-ux process driving the orchestrator, if any
  conc           \* analyzePage calls running at the same time: their locals and objects

\* what the orchestrator's own steps leave alone
aux == <<settleOrder, session, cli, conc>>
vars == <<browser, pc, ncalls, tier, selector, page, results, calls, failed, outcome,
          openPages, openContexts, runs, aux>>

Tiers == {"quick", "deep", "element", "full"}
Selectors == {"", "button"}
NotRun == [ep \in EntryPoints |-> "notrun"]
MainPage(c) == [kind |-> "main", call |-> c]
MobilePage(c) == [kind |-> "mobile", call |-> c]
\* a batch that counts as settled as soon as one of its promises has settled
AnySettled(batch) == \E ep \in Range(batch) : calls[ep] \in {"fulfilled", "rejected"}
\* await Promise.allSettled(analyses): every promise of the batch has settled
Settled(batch) == \A ep \in Range(batch) : calls[ep] \in {"fulfilled", "rejected"}

\* the callers that may have an analyzePage call in progress at the same time
ConcCalls == {1, 2}
\* the locals of a call that has not started
IdleCall ==
  [pc |-> "idle", url |-> {}, calls |-> NotRun, failed |-> "none", outcome |-> "none",
   obj |-> 0]
NoConcurrentCalls ==
  [call |-> [c \in ConcCalls |-> IdleCall],
   results |-> [c \in ConcCalls |-> NewResults("quick")],
   loaded |-> [c \in ConcCalls |-> {}]]

\* no close() call has been made
NoCloseYet == [closeCalls |-> 0, released |-> 0, failures |-> 0]
\* no claude-ux command has been started
NoProcess ==
  [command |-> "none", phase |-> "none", pending |-> <<>>, collected |-> <<>>,
   critical |-> Undefined, navFailed |-> FALSE, stderr |-> {}, exitCode |-> -1,
   configured |-> 0, captureScreenshots |-> TRUE, timer |-> FALSE, report |-> TRUE,
   totalPages |-> Undefined, totalIssues |-> Undefined, criticalIssues |-> Undefined]

Init ==
  /\ browser = "null"
  /\ pc = "idle"
  /\ ncalls = 0
  /\ tier = "quick"
  /\ selector = ""
  /\ page = {}
  /\ results = NewResults("quick")
  /\ calls = NotRun
  /\ failed = "none"
  /\ outcome = "none"
  /\ openPages = {}
  /\ openContexts = {}
  /\ runs = 0
  /\ settleOrder = <<>>
  /\ session = NoCloseYet
  /\ cli = NoProcess
  /\ conc = NoConcurrentCalls

\* ------------------------------------------------------------------------
\* Session
\* ------------------------------------------------------------------------
Initialize ==
  /\ browser = "null"
  /\ pc = "idle"
  /\ browser' = "open"
  /\ UNCHANGED <<pc, ncalls, tier, selector, page, results, calls, failed, outcome,
                 openPages, openContexts, runs, aux>>

\* close(): closing the browser closes every context and page of it
Close ==
  /\ pc = "idle"
  /\ browser = "open"
  /\ browser' = "closed"
  /\ openPages' = {}
  /\ openContexts' = {}
  /\ UNCHANGED <<pc, ncalls, tier, selector, page, results, calls, failed, outcome, runs, aux>>

\* ------------------------------------------------------------------------
\* analyzePage
\* ------------------------------------------------------------------------
\* an entry whose context.newPage() is inside the try block
AnalyzePageInsideTry(pg, t, sel) ==
  /\ pc = "idle"
  /\ ncalls < MaxCalls
  /\ t = "element" \/ sel = ""
  /\ ncalls' = ncalls + 1
  /\ tier' = t
  /\ selector' = sel
  /\ page' = pg
  /\ results' = NewResults(t)
  /\ calls' = NotRun
  /\ outcome' = "pending"
  /\ IF browser = "open"
       THEN /\ openPages' = openPages \cup {MainPage(ncalls + 1)}
            /\ pc' = "goto"
            /\ failed' = "none"
       ELSE /\ openPages' = openPages
            /\ pc' = "catch"
            /\ failed' = "newPage"
  /\ UNCHANGED <<browser, openContexts, runs, aux>>

\* entry: context.newPage() and the results literal, before the try block
AnalyzePage(pg, t, sel) ==
  /\ pc = "idle"
  /\ ncalls < MaxCalls
  /\ t = "element" \/ sel = ""
  /\ ncalls' = ncalls + 1
  /\ tier' = t
  /\ selector' = sel
  /\ page' = pg
  /\ results' = NewResults(t)
  /\ calls' = NotRun
  /\ failed' = "none"
  /\ IF browser = "open"
       THEN /\ openPages' = openPages \cup {MainPage(ncalls + 1)}
            /\ pc' = "goto"
            /\ outcome' = "pending"
       ELSE /\ openPages' = openPages
            /\ pc' = "done"
            /\ outcome' = "threw"
  /\ UNCHANGED <<browser, openContexts, runs, aux>>

\* a failing step that sends the call back to the navigation to try again
ThrowAndRetry(step) ==
  /\ failed' = step
  /\ pc' = "goto"

\* an awaited step inside the try block throws: control moves to the catch block
Throw(step) ==
  /\ failed' = step
  /\ pc' = "catch"

Goto ==
  /\ pc = "goto"
  /\ \/ /\ pc' = "screenshot"
        /\ UNCHANGED failed
     \/ Throw("goto")
  /\ UNCHANGED <<browser, ncalls, tier, selector, page, results, calls, outcome,
                 openPages, openContexts, runs, aux>>

CaptureScreenshot ==
  /\ pc = "screenshot"
  /\ \/ /\ results' = [results EXCEPT !.screenshots = Append(@, "main")]
        /\ pc' = IF tier = "element" THEN "runElement" ELSE "runQuick"
        /\ UNCHANGED failed
     \/ /\ Throw("screenshot")
        /\ UNCHANGED results
  /\ UNCHANGED <<browser, ncalls, tier, selector, page, calls, outcome,
                 openPages, openContexts, runs, aux>>

\* runQuickAnalysis: the three promises are created together
RunQuickAnalysis ==
  /\ pc = "runQuick"
  /\ calls' = [ep \in EntryPoints |->
                 IF ep \in Range(QuickBatch) THEN "pending" ELSE calls[ep]]
  /\ pc' = "quickSettle"
  /\ UNCHANGED <<browser, ncalls, tier, selector, page, results, failed, outcome,
                 openPages, openContexts, runs, aux>>

\* one analyzer promise of the batch in flight fulfils or rejects
SettlePromise(ep) ==
  /\ calls[ep] = "pending"
  /\ \E st \in {"fulfilled", "rejected"} : calls' = [calls EXCEPT ![ep] = st]
  /\ UNCHANGED <<browser, pc, ncalls, tier, selector, page, results, failed, outcome,
                 openPages, openContexts, runs>>

\* one analyzer promise of the batch in flight settles
Settle(ep) ==
  /\ SettlePromise(ep)
  /\ UNCHANGED aux

\* Promise.allSettled has resolved: the forEach of runQuickAnalysis
QuickMerge ==
  /\ pc = "quickSettle"
  /\ Settled(QuickBatch)
  /\ results' = ForEachSettled(results, AllSettled(QuickBatch, settleOrder),
                               calls, page, FALSE)
  /\ pc' = IF tier = "quick" THEN "summary" ELSE "runDeep"
  /\ UNCHANGED <<browser, ncalls, tier, selector, page, calls, failed, outcome,
                 openPages, openContexts, runs, aux>>

RunDeepAnalysis ==
  /\ pc = "runDeep"
  /\ calls' = [ep \in EntryPoints |->
                 IF ep \in Range(DeepBatch) THEN "pending" ELSE calls[ep]]
  /\ pc' = "deepSettle"
  /\ UNCHANGED <<browser, ncalls, tier, selector, page, results, failed, outcome,
                 openPages, openContexts, runs, aux>>

DeepMerge ==
  /\ pc = "deepSettle"
  /\ Settled(DeepBatch)
  /\ results' = ForEachSettled(results, AllSettled(DeepBatch, settleOrder),
                               calls, page, TRUE)
  /\ pc' = IF tier = "deep" THEN "summary" ELSE "mobileOpen"
  /\ UNCHANGED <<browser, ncalls, tier, selector, page, calls, failed, outcome,
                 openPages, openContexts, runs, aux>>

\* runElementAnalysis, first await: visual.elementAnalysis(page, selector)
ElementAnalysisCall ==
  /\ pc = "runElement"
  /\ \/ /\ calls' = [calls EXCEPT !["elementAnalysis"] = "fulfilled"]
        /\ pc' = "elementCheck"
        /\ UNCHANGED failed
     \/ /\ calls' = [calls EXCEPT !["elementAnalysis"] = "rejected"]
        /\ Throw("elementAnalysis")
  /\ UNCHANGED <<browser, ncalls, tier, selector, page, results, outcome,
                 openPages, openContexts, runs, aux>>

\* the two pushes of runElementAnalysis
MergeElement(r, elementResults, accessibilityResults) ==
  [r EXCEPT !.issues = @ \o elementResults.issues \o accessibilityResults.issues,
            !.recommendations =
               @ \o elementResults.recommendations \o accessibilityResults.recommendations]

\* runElementAnalysis, second await and the two pushes
ElementCheckCall ==
  /\ pc = "elementCheck"
  /\ \/ /\ calls' = [calls EXCEPT !["elementCheck"] = "fulfilled"]
        /\ results' = MergeElement(results, elementAnalysis(page, selector),
                                   elementCheck(page, selector))
        /\ pc' = "summary"
        /\ UNCHANGED failed
     \/ /\ calls' = [calls EXCEPT !["elementCheck"] = "rejected"]
        /\ Throw("elementCheck")
        /\ UNCHANGED results
  /\ UNCHANGED <<browser, ncalls, tier, selector, page, outcome,
                 openPages, openContexts, runs, aux>>

\* runFullAnalysis after the deep run: browser.newContext and mobileContext.newPage
MobileOpen ==
  /\ pc = "mobileOpen"
  /\ openContexts' = openContexts \cup {ncalls}
  /\ openPages' = openPages \cup {MobilePage(ncalls)}
  /\ pc' = "mobileGoto"
  /\ UNCHANGED <<browser, ncalls, tier, selector, page, results, calls, failed, outcome, runs, aux>>

MobileGoto ==
  /\ pc = "mobileGoto"
  /\ \/ /\ pc' = "mobileScreenshot"
        /\ UNCHANGED failed
     \/ Throw("mobileGoto")
  /\ UNCHANGED <<browser, ncalls, tier, selector, page, results, calls, outcome,
                 openPages, openContexts, runs, aux>>

MobileScreenshot ==
  /\ pc = "mobileScreenshot"
  /\ \/ /\ results' = [results EXCEPT !.screenshots = Append(@, "mobile")]
        /\ pc' = "mobileAudit"
        /\ UNCHANGED failed
     \/ /\ Throw("mobileScreenshot")
        /\ UNCHANGED results
  /\ UNCHANGED <<browser, ncalls, tier, selector, page, calls, outcome,
                 openPages, openContexts, runs, aux>>

\* the two pushes after the mobile audit
MergeMobile(r, mobileResults) ==
  [r EXCEPT !.issues = @ \o mobileResults.issues,
            !.recommendations = @ \o mobileResults.recommendations]

MobileAudit ==
  /\ pc = "mobileAudit"
  /\ \/ /\ calls' = [calls EXCEPT !["fullMobileAudit"] = "fulfilled"]
        /\ results' = MergeMobile(results, fullMobileAudit(page))
        /\ pc' = "mobileClose"
        /\ UNCHANGED failed
     \/ /\ calls' = [calls EXCEPT !["fullMobileAudit"] = "rejected"]
        /\ Throw("fullMobileAudit")
        /\ UNCHANGED results
  /\ UNCHANGED <<browser, ncalls, tier, selector, page, outcome,
                 openPages, openContexts, runs, aux>>

\* mobilePage.close(); mobileContext.close()
MobileClose ==
  /\ pc = "mobileClose"
  /\ openPages' = openPages \ {MobilePage(ncalls)}
  /\ openContexts' = openContexts \ {ncalls}
  /\ pc' = "summary"
  /\ UNCHANGED <<browser, ncalls, tier, selector, page, results, calls, failed, outcome, runs, aux>>

\* this.calculateSummary(results), then return results
Summarize ==
  /\ pc = "summary"
  /\ results' = calculateSummary(results)
  /\ pc' = "finally"
  /\ UNCHANGED <<browser, ncalls, tier, selector, page, calls, failed, outcome,
                 openPages, openContexts, runs, aux>>

Catch ==
  /\ pc = "catch"
  /\ results' = CatchHandler(results, failed)
  /\ pc' = "finally"
  /\ UNCHANGED <<browser, ncalls, tier, selector, page, calls, failed, outcome,
                 openPages, openContexts, runs, aux>>

\* finally { await page.close(); } and the call settles with its results
Finally ==
  /\ pc = "finally"
  /\ openPages' = openPages \ {MainPage(ncalls)}
  /\ pc' = "done"
  /\ outcome' = "returned"
  /\ UNCHANGED <<browser, ncalls, tier, selector, page, results, calls, failed,
                 openContexts, runs, aux>>

\* the await of the call resumes its caller; the orchestrator is idle again
TakeResult ==
  /\ pc = "done"
  /\ pc' = "idle"
  /\ tier' = "quick"
  /\ selector' = ""
  /\ page' = {}
  /\ results' = NewResults("quick")
  /\ calls' = NotRun
  /\ failed' = "none"
  /\ outcome' = "none"
  /\ UNCHANGED <<browser, ncalls, openPages, openContexts, runs>>

\* the caller has taken the settled call's result; the orchestrator is idle again
Return ==
  /\ TakeResult
  /\ UNCHANGED aux

Next ==
  \/ Initialize
  \/ Close
  \/ \E pg \in Pages, t \in Tiers, sel \in Selectors : AnalyzePage(pg, t, sel)
  \/ Goto
  \/ CaptureScreenshot
  \/ RunQuickAnalysis
  \/ \E ep \in EntryPoints : Settle(ep)
  \/ QuickMerge
  \/ RunDeepAnalysis
  \/ DeepMerge
  \/ ElementAnalysisCall
  \/ ElementCheckCall
  \/ MobileOpen
  \/ MobileGoto
  \/ MobileScreenshot
  \/ MobileAudit
  \/ MobileClose
  \/ Summarize
  \/ Catch
  \/ Finally
  \/ Return

Spec == Init /\ [][Next]_vars

\* ------------------------------------------------------------------------
\* One quick or deep run with the settling order of its promises recorded
\* ------------------------------------------------------------------------
\* pages on which several analyzers of a batch report findings
OrderPages == {{"brokenImages", "noMainLandmark", "largeDom"}, Features}

OrderAnalyzePage(pg, t) ==
  /\ ncalls = 0
  /\ AnalyzePage(pg, t, "")

SettleInOrder(ep) ==
  /\ SettlePromise(ep)
  /\ settleOrder' = Append(settleOrder, ep)
  /\ UNCHANGED <<session, cli, conc>>

OrderNext ==
  \/ Initialize
  \/ \E pg \in OrderPages, t \in {"quick", "deep"} : OrderAnalyzePage(pg, t)
  \/ Goto
  \/ CaptureScreenshot
  \/ RunQuickAnalysis
  \/ \E ep \in EntryPoints : SettleInOrder(ep)
  \/ QuickMerge
  \/ RunDeepAnalysis
  \/ DeepMerge
  \/ Summarize
  \/ Catch
  \/ Finally
  \/ Return

OrderSpec == Init /\ [][OrderNext]_vars

\* ------------------------------------------------------------------------
\* close() called at any time between quick runs, with its calls counted
\* ------------------------------------------------------------------------
\* a close() that calls this.browser.close() without testing this.browser
closeOutcomeUnguarded(b) ==
  IF b = "null" THEN "threw" ELSE IF b = "open" THEN "released" ELSE "noop"

\* if (this.browser) await this.browser.close(): nothing to do before initialize;
\* closing the open browser releases it; close() of a closed browser resolves
closeOutcome(b) ==
  IF b = "null" THEN "skipped" ELSE IF b = "open" THEN "released" ELSE "noop"

CloseCall ==
  /\ pc = "idle"
  /\ session.closeCalls < MaxCloses
  /\ LET o == closeOutcome(browser)
     IN /\ browser' = IF o = "released" THEN "closed" ELSE browser
        /\ openPages' = IF o = "released" THEN {} ELSE openPages
        /\ openContexts' = IF o = "released" THEN {} ELSE openContexts
        /\ session' = [closeCalls |-> session.closeCalls + 1,
                       released |-> session.released + (IF o = "released" THEN 1 ELSE 0),
                       failures |-> session.failures + (IF o = "threw" THEN 1 ELSE 0)]
  /\ UNCHANGED <<pc, ncalls, tier, selector, page, results, calls, failed, outcome, runs,
                 settleOrder, cli, conc>>

SessionNext ==
  \/ Initialize
  \/ CloseCall
  \/ \E pg \in Pages : AnalyzePage(pg, "quick", "")
  \/ Goto
  \/ CaptureScreenshot
  \/ RunQuickAnalysis
  \/ \E ep \in EntryPoints : Settle(ep)
  \/ QuickMerge
  \/ Summarize
  \/ Catch
  \/ Finally
  \/ Return

SessionSpec == Init /\ [][SessionNext]_vars

\* ------------------------------------------------------------------------
\* The claude-ux process: the quick, deep, element and batch commands
\* ------------------------------------------------------------------------
\* the pages the commands are pointed at
CliPages == {{"brokenImages"}, {"largeDom"}}
Job(t, sel) == [tier |-> t, selector |-> sel]
\* the type of a page entry of the batch configuration (page.type || 'quick')
BatchTypes == {"quick", "deep"}
\* the analyzePage calls a command makes, from its arguments and options
Jobs(cmd) ==
  CASE cmd = "quick" -> {<<Job("quick", "")>>}
    [] cmd = "deep" -> {<<Job("deep", "")>>, <<Job("full", "")>>}
    [] cmd = "element" -> {<<Job("element", "button")>>}
    [] cmd = "batch" ->
         UNION {[1..n -> {Job(t, "") : t \in BatchTypes}] : n \in 0..MaxCalls}

\* results.reduce((sum, r) => sum + r.summary[field], 0)
Reduce(collected, field) ==
  LET sum[n \in 0..Len(collected)] ==
        IF n = 0 THEN Num(0) ELSE JsAdd(sum[n - 1], collected[n][field])
  IN sum[Len(collected)]

\* displayImmediateFeedback reads results.summary.priorityActions.length
FeedbackThrows(r) == ~r.summary.priorityActions.defined

\* process.exit(code), or the end of the action with nothing left to run
Exit(c, code, lines) ==
  [c EXCEPT !.phase = "exited", !.exitCode = code, !.stderr = @ \cup lines,
            !.pending = <<>>]

\* the action of a command starts: new UXOrchestrator(...)
CliStart(cmd, jobs, screenshots) ==
  /\ cli.phase = "none"
  /\ cmd = "quick" \/ screenshots
  /\ cli' = [cli EXCEPT !.command = cmd, !.pending = jobs, !.configured = Len(jobs),
                        !.captureScreenshots = screenshots,
                        !.phase = IF jobs = <<>> THEN "summary" ELSE "analyze"]
  /\ UNCHANGED <<browser, pc, ncalls, tier, selector, page, results, calls, failed,
                 outcome, openPages, openContexts, runs, settleOrder, session, conc>>

\* await orchestrator.analyzePage(url, type, options), after initialize()
CliAnalyzePage(pg) ==
  /\ cli.phase = "analyze"
  /\ cli.pending # <<>>
  /\ browser = "open"
  /\ AnalyzePage(pg, Head(cli.pending).tier, Head(cli.pending).selector)

\* the call has settled: results.push(result) in the batch loop,
\* displayImmediateFeedback(results) in the other commands
CliTakeResult ==
  /\ cli.phase = "analyze"
  /\ TakeResult
  /\ LET seen == [cli EXCEPT
                    !.navFailed = @ \/ failed = "goto",
                    !.stderr = @ \cup (IF results.error # "undefined"
                                         THEN {"orchestrator"} ELSE {}),
                    !.pending = Tail(@)]
     IN cli' =
          IF cli.command = "batch"
            THEN [seen EXCEPT
                    !.collected = Append(@, [totalIssues |-> results.summary.totalIssues,
                                             criticalIssues |-> results.summary.criticalIssues,
                                             issues |-> Len(results.issues),
                                             criticals |->
                                               Len(SelectSeq(results.issues, IsCritical)),
                                             error |-> results.error]),
                    !.phase = IF seen.pending = <<>> THEN "summary" ELSE "analyze"]
          ELSE IF FeedbackThrows(results) THEN Exit(seen, 1, {"cli"})
          ELSE [seen EXCEPT !.critical = results.summary.criticalIssues,
                            !.phase = IF cli.command = "element" THEN "close" ELSE "report"]
  /\ UNCHANGED <<settleOrder, session, conc>>

\* await orchestrator.generateReport(results, options.format): the renderer
\* writes the report or throws into the catch of the action
CliGenerateReport ==
  /\ cli.phase = "report"
  /\ \/ cli' = [cli EXCEPT !.phase = "close"]
     \/ cli' = Exit(cli, 1, {"cli"})
  /\ UNCHANGED <<browser, pc, ncalls, tier, selector, page, results, calls, failed,
                 outcome, openPages, openContexts, runs, settleOrder, session, conc>>

\* a command that ends normally whatever the analysis found
ExitCodeIgnoringCritical(cmd, critical) == 0

\* if (results.summary.criticalIssues > 0) process.exit(1), in the quick action only
ExitCodeAfterClose(cmd, critical) ==
  IF cmd = "quick" /\ critical.k = "number" /\ critical.n > 0 THEN 1 ELSE 0

\* await orchestrator.close(), then the exit code of the command
CliClose ==
  /\ cli.phase = "close"
  /\ browser' = "closed"
  /\ openPages' = {}
  /\ openContexts' = {}
  /\ cli' = Exit(cli, ExitCodeAfterClose(cli.command, cli.critical), {})
  /\ UNCHANGED <<pc, ncalls, tier, selector, page, results, calls, failed, outcome, runs,
                 settleOrder, session, conc>>

\* the batch loop is over: summaryReport, writeFile, close
CliBatchSummary ==
  /\ cli.phase = "summary"
  /\ browser = "open"
  /\ browser' = "closed"
  /\ openPages' = {}
  /\ openContexts' = {}
  /\ cli' = Exit([cli EXCEPT !.totalPages = Num(Len(cli.collected)),
                             !.totalIssues = Reduce(cli.collected, "totalIssues"),
                             !.criticalIssues = Reduce(cli.collected, "criticalIssues")],
                 0, {})
  /\ UNCHANGED <<pc, ncalls, tier, selector, page, results, calls, failed, outcome, runs,
                 settleOrder, session, conc>>

CliNext ==
  \/ Initialize
  \/ \E cmd \in {"quick", "deep", "element", "batch"} : \E jobs \in Jobs(cmd) :
        \E screenshots \in BOOLEAN : CliStart(cmd, jobs, screenshots)
  \/ \E pg \in CliPages : CliAnalyzePage(pg)
  \/ Goto
  \/ CaptureScreenshot
  \/ RunQuickAnalysis
  \/ \E ep \in EntryPoints : Settle(ep)
  \/ QuickMerge
  \/ RunDeepAnalysis
  \/ DeepMerge
  \/ ElementAnalysisCall
  \/ ElementCheckCall
  \/ MobileOpen
  \/ MobileGoto
  \/ MobileScreenshot
  \/ MobileAudit
  \/ MobileClose
  \/ Summarize
  \/ Catch
  \/ Finally
  \/ CliTakeResult
  \/ CliGenerateReport
  \/ CliClose
  \/ CliBatchSummary

CliSpec == Init /\ [][CliNext]_vars

\* ------------------------------------------------------------------------
\* One analyzePage call of any tier whose awaited steps all settle in the end
\* ------------------------------------------------------------------------
TerminationPages == {{}, {"imagesWithoutAlt"}}

SingleAnalyzePage(pg, t, sel) ==
  /\ ncalls = 0
  /\ AnalyzePage(pg, t, sel)

\* the awaited steps of a call in progress
CallStep ==
  \/ Goto
  \/ CaptureScreenshot
  \/ RunQuickAnalysis
  \/ \E ep \in EntryPoints : Settle(ep)
  \/ QuickMerge
  \/ RunDeepAnalysis
  \/ DeepMerge
  \/ ElementAnalysisCall
  \/ ElementCheckCall
  \/ MobileOpen
  \/ MobileGoto
  \/ MobileScreenshot
  \/ MobileAudit
  \/ MobileClose
  \/ Summarize
  \/ Catch
  \/ Finally

TerminationNext ==
  \/ Initialize
  \/ \E pg \in TerminationPages, t \in Tiers, sel \in Selectors : SingleAnalyzePage(pg, t, sel)
  \/ CallStep
  \/ Return

\* every awaited promise settles: a call in progress is never stuck at an await
TerminationSpec == Init /\ [][TerminationNext]_vars /\ WF_vars(CallStep)

\* ------------------------------------------------------------------------
\* runCLI of orchestrator.js: node orchestrator.js <command> <url> [--report f]
\* ------------------------------------------------------------------------
\* the analyzePage call the command makes after initialize(); monitor makes none
\* there and schedules its calls with setInterval
RunCliJobs(cmd) ==
  CASE cmd = "quick" -> {<<Job("quick", "")>>}
    [] cmd = "deep" -> {<<Job("deep", "")>>}
    [] cmd = "element" -> {<<Job("element", sel)>> : sel \in Selectors}
    [] cmd = "full" -> {<<Job("full", "")>>}
    [] cmd = "monitor" -> {<<>>}

\* new UXOrchestrator(), await initialize(), and for monitor the setInterval
\* and the return that leads to the finally block
RunCliStart(cmd, jobs, report) ==
  /\ cli.phase = "none"
  /\ browser = "null"
  /\ browser' = "open"
  /\ cli' = [cli EXCEPT !.command = cmd, !.pending = jobs, !.report = report,
                        !.timer = (cmd = "monitor"),
                        !.phase = IF cmd = "monitor" THEN "finally" ELSE "analyze"]
  /\ UNCHANGED <<pc, ncalls, tier, selector, page, results, calls, failed,
                 outcome, openPages, openContexts, runs, settleOrder, session, conc>>

\* the awaited call has settled: displayImmediateFeedback(results); an error it
\* throws is logged by the catch of runCLI
RunCliTakeResult ==
  /\ cli.phase = "analyze"
  /\ TakeResult
  /\ cli' = [cli EXCEPT
               !.pending = <<>>,
               !.navFailed = failed = "goto",
               !.stderr = @ \cup (IF results.error # "undefined" THEN {"orchestrator"} ELSE {})
                            \cup (IF FeedbackThrows(results) THEN {"cli"} ELSE {}),
               !.phase = IF ~FeedbackThrows(results) /\ cli.report THEN "report"
                         ELSE "finally"]
  /\ UNCHANGED <<settleOrder, session, conc>>

\* if (args.includes('--report')) await orchestrator.generateReport(...)
RunCliReport ==
  /\ cli.phase = "report"
  /\ \/ cli' = [cli EXCEPT !.phase = "finally"]
     \/ cli' = [cli EXCEPT !.phase = "finally", !.stderr = @ \cup {"cli"}]
  /\ UNCHANGED <<browser, pc, ncalls, tier, selector, page, results, calls, failed,
                 outcome, openPages, openContexts, runs, settleOrder, session, conc>>

\* finally { await orchestrator.close(); }: the process then ends, unless the
\* interval timer of monitor keeps it alive
RunCliFinally ==
  /\ cli.phase = "finally"
  /\ browser' = "closed"
  /\ openPages' = {}
  /\ openContexts' = {}
  /\ cli' = IF cli.timer THEN [cli EXCEPT !.phase = "monitoring"] ELSE Exit(cli, 0, {})
  /\ UNCHANGED <<pc, ncalls, tier, selector, page, results, calls, failed, outcome, runs,
                 settleOrder, session, conc>>

\* the interval elapses: the callback calls orchestrator.analyzePage(url, 'quick');
\* the first callback runs a minute after the synchronous return into finally
MonitorTick(pg) ==
  /\ cli.timer
  /\ cli.phase = "monitoring"
  /\ AnalyzePage(pg, "quick", "")

\* the call of the callback has settled; a rejection is unhandled and, depending
\* on the Node version, is reported as a warning or ends the process with code 1
MonitorTickSettled ==
  /\ cli.phase = "monitoring"
  /\ TakeResult
  /\ IF outcome = "threw"
       THEN \/ cli' = [cli EXCEPT !.stderr = @ \cup {"unhandledRejection"}]
            \/ cli' = Exit([cli EXCEPT !.timer = FALSE], 1, {"unhandledRejection"})
       ELSE cli' = cli
  /\ UNCHANGED <<settleOrder, session, conc>>

RunCliNext ==
  \/ \E cmd \in {"quick", "deep", "element", "full", "monitor"} :
        \E jobs \in RunCliJobs(cmd), report \in BOOLEAN : RunCliStart(cmd, jobs, report)
  \/ \E pg \in CliPages : CliAnalyzePage(pg)
  \/ CallStep
  \/ RunCliTakeResult
  \/ RunCliReport
  \/ RunCliFinally
  \/ \E pg \in CliPages : MonitorTick(pg)
  \/ MonitorTickSettled

RunCliSpec == Init /\ [][RunCliNext]_vars

\* ------------------------------------------------------------------------
\* Two quick analyzePage calls in progress at the same time on one orchestrator
\* ------------------------------------------------------------------------
ConcPages == {{"brokenImages"}, {"imagesWithoutAlt"}}

\* one results object written by every call, as a field of the orchestrator would be
ResultsOfOrchestrator(c) == 1

\* const results = {...}: the object literal evaluated by call c
ResultsOf(c) == c
\* const page = await this.context.newPage(): the page opened by call c
PageOf(c) == c

ConcAnalyzePage(c, pg) ==
  /\ conc.call[c].pc = "idle"
  /\ browser = "open"
  /\ openPages' = openPages \cup {MainPage(PageOf(c))}
  /\ conc' = [conc EXCEPT
                !.call[c] = [pc |-> "goto", url |-> pg, calls |-> NotRun, failed |-> "none",
                             outcome |-> "pending", obj |-> ResultsOf(c)],
                !.results[ResultsOf(c)] = NewResults("quick")]
  /\ UNCHANGED <<browser, pc, ncalls, tier, selector, page, results, calls, failed,
                 outcome, openContexts, runs, settleOrder, session, cli>>

\* the orchestrator's own variables and the other histories, untouched by a step
\* of a concurrent call
ConcFrame ==
  UNCHANGED <<browser, pc, ncalls, tier, selector, page, results, calls, failed,
              outcome, openContexts, runs, settleOrder, session, cli>>

ConcGoto(c) ==
  /\ conc.call[c].pc = "goto"
  /\ \/ conc' = [conc EXCEPT !.call[c].pc = "screenshot",
                              !.loaded[PageOf(c)] = conc.call[c].url]
     \/ conc' = [conc EXCEPT !.call[c].pc = "catch", !.call[c].failed = "goto"]
  /\ UNCHANGED openPages
  /\ ConcFrame

ConcCaptureScreenshot(c) ==
  /\ conc.call[c].pc = "screenshot"
  /\ \/ conc' = [conc EXCEPT !.call[c].pc = "runQuick",
                              !.results[ResultsOf(c)].screenshots = Append(@, "main")]
     \/ conc' = [conc EXCEPT !.call[c].pc = "catch", !.call[c].failed = "screenshot"]
  /\ UNCHANGED openPages
  /\ ConcFrame

ConcRunQuickAnalysis(c) ==
  /\ conc.call[c].pc = "runQuick"
  /\ conc' = [conc EXCEPT
                !.call[c].pc = "quickSettle",
                !.call[c].calls = [ep \in EntryPoints |->
                                     IF ep \in Range(QuickBatch) THEN "pending" ELSE @[ep]]]
  /\ UNCHANGED openPages
  /\ ConcFrame

\* the three analyzers, run on the call's page, have settled with status st;
\* Promise.allSettled resolves and the forEach merges into the call's results
ConcQuickMerge(c, st) ==
  /\ conc.call[c].pc = "quickSettle"
  /\ LET status == [ep \in EntryPoints |->
                      IF ep \in Range(QuickBatch) THEN st[ep] ELSE conc.call[c].calls[ep]]
     IN conc' = [conc EXCEPT
                   !.call[c].pc = "summary",
                   !.call[c].calls = status,
                   !.results[ResultsOf(c)] =
                      ForEachSettled(@, AllSettled(QuickBatch, <<>>), status,
                                     conc.loaded[PageOf(c)], FALSE)]
  /\ UNCHANGED openPages
  /\ ConcFrame

ConcSummarize(c) ==
  /\ conc.call[c].pc = "summary"
  /\ conc' = [conc EXCEPT !.call[c].pc = "finally",
                          !.results[ResultsOf(c)] = calculateSummary(@)]
  /\ UNCHANGED openPages
  /\ ConcFrame

ConcCatch(c) ==
  /\ conc.call[c].pc = "catch"
  /\ conc' = [conc EXCEPT !.call[c].pc = "finally",
                          !.results[ResultsOf(c)] = CatchHandler(@, conc.call[c].failed)]
  /\ UNCHANGED openPages
  /\ ConcFrame

ConcFinally(c) ==
  /\ conc.call[c].pc = "finally"
  /\ openPages' = openPages \ {MainPage(PageOf(c))}
  /\ conc' = [conc EXCEPT !.call[c].pc = "done", !.call[c].outcome = "returned"]
  /\ ConcFrame

ConcNext ==
  \/ Initialize
  \/ \E c \in ConcCalls, pg \in ConcPages : ConcAnalyzePage(c, pg)
  \/ \E c \in ConcCalls : ConcGoto(c)
  \/ \E c \in ConcCalls : ConcCaptureScreenshot(c)
  \/ \E c \in ConcCalls : ConcRunQuickAnalysis(c)
  \/ \E c \in ConcCalls :
        \E st \in [Range(QuickBatch) -> {"fulfilled", "rejected"}] : ConcQuickMerge(c, st)
  \/ \E c \in ConcCalls : ConcSummarize(c)
  \/ \E c \in ConcCalls : ConcCatch(c)
  \/ \E c \in ConcCalls : ConcFinally(c)

ConcurrentSpec == Init /\ [][ConcNext]_vars

\* ------------------------------------------------------------------------
\* The scoring engine alone: calculateSummary applied to a merged result
\* ------------------------------------------------------------------------
\* the (severity, impact) shapes the analyzers of the repository emit, and the
\* shapes the fallbacks of estimateFixTime are written for: an issue without
\* severity, one without severity and impact, one with a label outside the table
IssueShapes == {Issue("bug", "critical", "high", "Broken Images Detected"),
                Issue("accessibility", "high", "high", "Missing Alt Text"),
                Issue("performance", "medium", "medium", "Large DOM Size"),
                Issue("bug", "low", "low", "Clickable Elements Without Pointer Cursor"),
                Issue("custom", "undefined", "low", "No Severity"),
                Issue("custom", "undefined", "undefined", "No Severity And No Impact"),
                Issue("custom", "info", "undefined", "Unknown Severity")}
IssueLists == UNION {[1..n -> IssueShapes] : n \in 0..MaxIssues}

ScoringInit ==
  /\ browser = "null"
  /\ pc = "scoring"
  /\ ncalls = 0
  /\ tier = "quick"
  /\ selector = ""
  /\ page = {}
  /\ \E issues \in IssueLists : results = [NewResults("quick") EXCEPT !.issues = issues]
  /\ calls = NotRun
  /\ failed = "none"
  /\ outcome = "none"
  /\ openPages = {}
  /\ openContexts = {}
  /\ runs = 0
  /\ settleOrder = <<>>
  /\ session = NoCloseYet
  /\ cli = NoProcess
  /\ conc = NoConcurrentCalls

RunCalculateSummary ==
  /\ pc = "scoring"
  /\ runs < MaxRuns
  /\ results' = calculateSummary(results)
  /\ runs' = runs + 1
  /\ UNCHANGED <<browser, pc, ncalls, tier, selector, page, calls, failed, outcome,
                 openPages, openContexts, aux>>

ScoringNext == RunCalculateSummary

ScoringSpec == ScoringInit /\ [][ScoringNext]_vars

\* ------------------------------------------------------------------------
\* Properties
\* ------------------------------------------------------------------------
Contains(seq, x) == \E n \in 1..Len(seq) : seq[n] = x
Returned == pc = "done" /\ outcome = "returned"
BatchTier == tier \in {"quick", "deep", "full"}
Rejected(batch) == {ep \in Range(batch) : calls[ep] = "rejected"}
Fulfilled(batch) == {ep \in Range(batch) : calls[ep] = "fulfilled"}
\* every issue, recommendation and metric key of the fragment is in the result
FragmentPresent(ep) ==
  LET value == Value(ep, page, "")
  IN /\ \A n \in 1..Len(value.issues) : Contains(results.issues, value.issues[n])
     /\ \A n \in 1..Len(value.recommendations) :
           Contains(results.recommendations, value.recommendations[n])
     /\ DOMAIN value.metrics \subseteq DOMAIN results.metrics
SummaryComputed == results.summary.totalIssues.k = "number"

\* C1: when page.goto fails, analyzePage does not throw: it returns the result
\* with error set to the failure message, and in the quick tier issues is empty.
C1_NavigationFailureReturned ==
  /\ failed = "goto" => outcome \in {"pending", "returned"}
  /\ (pc = "done" /\ failed = "goto" /\ tier = "quick") =>
       /\ outcome = "returned"
       /\ results.error = "goto"
       /\ results.issues = <<>>

C1_Witness == Returned /\ failed = "goto" /\ tier = "quick" /\ ncalls = 1

\* C2: when an analyzer of a parallel batch rejects, every analyzer of the batch
\* has still settled when the batch is merged, every fulfilled sibling's issues,
\* recommendations and metrics are in the result, the later batch of the tier is
\* run and merged too, and the summary is computed.
C2_RejectionIsolated ==
  /\ pc \notin {"quickSettle", "deepSettle"} => \A ep \in EntryPoints : calls[ep] # "pending"
  /\ (Returned /\ BatchTier /\ failed \notin {"goto", "screenshot"}
        /\ Rejected(QuickBatch) \cup Rejected(DeepBatch) # {}) =>
       /\ Fulfilled(QuickBatch) \cup Rejected(QuickBatch) = Range(QuickBatch)
       /\ \A ep \in Fulfilled(QuickBatch) : FragmentPresent(ep)
       /\ tier \in {"deep", "full"} =>
            /\ Fulfilled(DeepBatch) \cup Rejected(DeepBatch) = Range(DeepBatch)
            /\ \A ep \in Fulfilled(DeepBatch) : FragmentPresent(ep)
       /\ failed = "none" => SummaryComputed

C2_Witness ==
  /\ Returned /\ tier = "deep" /\ failed = "none"
  /\ calls["quickScan"] = "rejected"
  /\ calls["quickCheck"] = "fulfilled"
  /\ calls["quickMetrics"] = "fulfilled"
  /\ calls["detailedMetrics"] = "rejected"
  /\ calls["fullAudit"] = "fulfilled"
  /\ page = {"imagesWithoutAlt"}
  /\ Len(results.issues) = 2

IsSystemIssue(i) == i.type = "system" /\ i.severity = "medium"
\* C3: every rejected analyzer of a batch shows up as exactly one synthetic issue
\* of category system and severity medium, so k rejections add k issues.
C3_RejectionsSurfaced ==
  (Returned /\ BatchTier /\ failed \notin {"goto", "screenshot"}) =>
     Len(SelectSeq(results.issues, IsSystemIssue))
       = Cardinality(Rejected(QuickBatch) \cup Rejected(DeepBatch))

\* C4: once an analyzePage call has returned, no page opened by it or by an
\* earlier call is still open, whatever the tier and whichever step failed.
C4_PagesClosed == Returned => openPages = {}

\* C5: the mobile context of the full tier, and its page, are closed before
\* analyzePage returns, also when a mobile step fails.
C5_MobileContextClosed ==
  Returned => /\ ncalls \notin openContexts
              /\ MobilePage(ncalls) \notin openPages

\* C6: in every result analyzePage returns, summary.totalIssues is the length of
\* the issues sequence.
C6_TotalIssues == Returned => results.summary.totalIssues = Num(Len(results.issues))

Max0(x) == IF x > 0 THEN x ELSE 0
\* C7: after calculateSummary ran on a freshly merged result, overallScore is
\* max(0, 100 - 20*criticalIssues - 10*highIssues - 5*mediumIssues) of that result.
C7_OverallScore ==
  runs = 1 =>
    results.summary.overallScore
      = Num(Max0(100 - 20 * results.summary.criticalIssues.n
                     - 10 * results.summary.highIssues.n
                     - 5 * results.summary.mediumIssues.n))

\* C8: a second run of calculateSummary on the same result leaves the summary
\* block as the first run made it.
C8_Idempotent == [][(runs = 1 /\ runs' = 2) => results'.summary = results.summary]_vars

ScoreOf(issues) ==
  calculateSummary([NewResults("quick") EXCEPT !.issues = issues]).summary.overallScore
\* C9: the overallScore of every finalized result is an integer in 0..100, and one
\* more critical, high or medium issue never raises it.
C9_ScoreRange ==
  (Returned /\ failed = "none") =>
    /\ results.summary.overallScore.k = "number"
    /\ results.summary.overallScore.n \in 0..100
    /\ \A i \in IssueShapes :
         i.severity # "low" =>
           /\ ScoreOf(Append(results.issues, i)).k = "number"
           /\ ScoreOf(Append(results.issues, i)).n <= results.summary.overallScore.n

EffectiveSeverity(i) ==
  IF i.severity # "undefined" THEN i.severity
  ELSE IF i.impact # "undefined" THEN i.impact ELSE "medium"
CountOf(issues, severity) ==
  Cardinality({n \in 1..Len(issues) : EffectiveSeverity(issues[n]) = severity})
\* C10: the buckets partition the issues by effective severity: each count is the
\* number of issues of that effective severity, the three penalized counts sum
\* to at most totalIssues, and a low issue is in none of them.
C10_BucketsPartition ==
  runs >= 1 =>
    /\ results.summary.criticalIssues.n = CountOf(results.issues, "critical")
    /\ results.summary.highIssues.n = CountOf(results.issues, "high")
    /\ results.summary.mediumIssues.n = CountOf(results.issues, "medium")
    /\ results.summary.criticalIssues.n + results.summary.highIssues.n
         + results.summary.mediumIssues.n <= results.summary.totalIssues.n

\* the analyzer entry points a run of the tier calls, in the order it merges them
MergeOrder(t, sel) ==
  CASE t = "quick" -> QuickBatch
    [] t = "deep" -> QuickBatch \o DeepBatch
    [] t = "full" -> QuickBatch \o DeepBatch \o <<"fullMobileAudit">>
    [] t = "element" -> <<"elementAnalysis", "elementCheck">>
AllRejected == {ep \in EntryPoints : calls[ep] = "rejected"}
NavigationAndCaptureOk == failed \notin {"goto", "screenshot", "mobileGoto", "mobileScreenshot"}

\* C12: in every tier, when exactly one analyzer call rejects (a batch member, an
\* element-scoped check or the mobile audit), every other analyzer of the tier has
\* still run, every fulfilled one's findings are in the result, the summary is
\* computed and error is not set.
C12_AnalyzerRejectionNeverAborts ==
  (Returned /\ NavigationAndCaptureOk /\ Cardinality(AllRejected) = 1) =>
     /\ \A ep \in Range(MergeOrder(tier, selector)) : calls[ep] \in {"fulfilled", "rejected"}
     /\ \A ep \in Range(MergeOrder(tier, selector)) :
          calls[ep] = "fulfilled" =>
            LET value == Value(ep, page, selector)
            IN \A n \in 1..Len(value.issues) : Contains(results.issues, value.issues[n])
     /\ SummaryComputed
     /\ results.error = "undefined"

\* C13: the error field of a returned result is set only when the navigation of
\* the page under analysis failed; a failing screenshot, analyzer or mobile
\* sub-run leaves it unset.
C13_ErrorOnlyOnNavigationFailure ==
  Returned => (results.error # "undefined" => failed = "goto")

Min(a, b) == IF a < b THEN a ELSE b
\* positions of the issues whose severity is critical or whose impact is high
Qualifying(issues) ==
  {n \in 1..Len(issues) : issues[n].severity = "critical" \/ issues[n].impact = "high"}
\* position in issues of the k-th qualifying issue
KthQualifying(issues, k) ==
  CHOOSE n \in Qualifying(issues) :
    Cardinality({m \in Qualifying(issues) : m <= n}) = k

\* C14: priorityActions has min(3, number of qualifying issues) entries, and its
\* k-th entry is made from the k-th issue, in insertion order, whose severity is
\* critical or whose impact is high.
C14_PriorityActions ==
  runs >= 1 =>
    LET items == results.summary.priorityActions.items
    IN /\ Len(items) <= 3
       /\ Len(items) = Min(3, Cardinality(Qualifying(results.issues)))
       /\ \A k \in 1..Len(items) :
            /\ items[k].title = results.issues[KthQualifying(results.issues, k)].title
            /\ items[k].impact = results.issues[KthQualifying(results.issues, k)].impact

\* more than three qualifying issues, the first two of them different
C14_Witness ==
  /\ runs = 1
  /\ Len(results.issues) >= 4
  /\ Cardinality(Qualifying(results.issues)) = Len(results.issues)
  /\ results.issues[1].title # results.issues[2].title
  /\ Len(results.summary.priorityActions.items) = 3

SeverityCost(issues, severity, cost) == cost * CountOf(issues, severity)
InTable == {"critical", "high", "medium", "low"}
OutsideTable(issues) ==
  Cardinality({n \in 1..Len(issues) : EffectiveSeverity(issues[n]) \notin InTable})
C17_LastWriteWins ==
  (Returned /\ failed = "none") =>
    LET order == MergeOrder(tier, selector)
        Has(n, f, key) ==
          /\ calls[order[n]] = "fulfilled"
          /\ key \in DOMAIN Value(order[n], page, selector)[f]
        Keys(f) == UNION {DOMAIN Value(order[n], page, selector)[f] :
                            n \in {m \in 1..Len(order) : calls[order[m]] = "fulfilled"}}
        Last(f, key) == CHOOSE n \in 1..Len(order) :
                          Has(n, f, key) /\ \A m \in (n + 1)..Len(order) : ~Has(m, f, key)
    IN \A f \in {"metrics", "scores"} : \A key \in Keys(f) :
         /\ key \in DOMAIN results[f]
         /\ results[f][key] = Value(order[Last(f, key)], page, selector)[f][key]

AllDone(batch) == \A n \in 1..Len(batch) : calls[batch[n]] \in {"fulfilled", "rejected"}
Started(batch) == \E n \in 1..Len(batch) : calls[batch[n]] # "notrun"
\* C18: while an analyzer of the extended batch has been started, the three quick
\* analyzers have settled and the fulfilled ones' fragments are in the result; and
\* while the mobile context of the call is open, the extended batch has settled.
C18_BatchesInSequence ==
  /\ Started(DeepBatch) =>
       /\ AllDone(QuickBatch)
       /\ \A ep \in Fulfilled(QuickBatch) : FragmentPresent(ep)
  /\ (pc # "idle" /\ ncalls \in openContexts) =>
       /\ AllDone(QuickBatch)
       /\ AllDone(DeepBatch)

\* a full run that has opened its mobile context after a deep batch with a rejection
C18_Witness ==
  /\ tier = "full" /\ pc = "mobileGoto" /\ ncalls \in openContexts
  /\ calls["quickMetrics"] = "rejected"
  /\ calls["responsivenessTest"] = "rejected"
  /\ calls["fullAudit"] = "fulfilled"
  /\ page = {"imagesWithoutAlt"}

\* C19: an element run without selector returns what the quick tier's page-wide
\* fast passes (bug scan, accessibility check, performance metrics) find on the
\* page, merged as the quick tier merges them.
C19_ElementWithoutSelectorIsQuick ==
  (Returned /\ tier = "element" /\ selector = "" /\ failed = "none") =>
    /\ results.issues
         = quickScan(page).issues \o quickCheck(page).issues \o quickMetrics(page).issues
    /\ results.recommendations
         = quickScan(page).recommendations \o quickCheck(page).recommendations
             \o quickMetrics(page).recommendations

\* the fragments of the fulfilled analyzers among the first n of order, concatenated
InRegistrationOrder(order, field) ==
  LET acc[n \in 0..Len(order)] ==
        IF n = 0 THEN <<>>
        ELSE IF calls[order[n]] = "fulfilled"
               THEN acc[n - 1] \o Value(order[n], page, "")[field]
               ELSE acc[n - 1]
  IN acc[Len(order)]
\* C11: whatever the order in which the analyzers of a batch settled, the issues
\* and recommendations of the result are those of the fulfilled analyzers in
\* registration order: quick batch first (bug detector, accessibility,
\* performance), then the deep batch (accessibility, visual, performance, mobile).
C11_RegistrationOrder ==
  /\ (pc = "runDeep" \/ (pc \in {"summary", "finally", "done"} /\ tier = "quick"
                           /\ failed = "none")) =>
       /\ results.issues = InRegistrationOrder(QuickBatch, "issues")
       /\ results.recommendations = InRegistrationOrder(QuickBatch, "recommendations")
  /\ (pc \in {"summary", "finally", "done"} /\ tier = "deep" /\ failed = "none") =>
       /\ results.issues = InRegistrationOrder(QuickBatch \o DeepBatch, "issues")
       /\ results.recommendations
            = InRegistrationOrder(QuickBatch \o DeepBatch, "recommendations")

\* a deep run whose analyzers all fulfilled in the reverse of registration order
C11_Witness ==
  /\ pc = "summary" /\ tier = "deep" /\ page = Features
  /\ settleOrder = <<"quickMetrics", "quickCheck", "quickScan", "responsivenessTest",
                      "detailedMetrics", "comprehensiveAnalysis", "fullAudit">>
  /\ \A ep \in Range(QuickBatch \o DeepBatch) : calls[ep] = "fulfilled"
  /\ Len(results.issues) = 8
  /\ results.issues[1].title = "Broken Images Detected"
  /\ results.issues[8].title = "Missing Viewport Meta Tag"

\* C16: a close() call never fails; made on an open session it releases the
\* session, made before initialize() or after an earlier close() it releases
\* nothing and leaves the session as it was.
C16_CloseIdempotent ==
  [][session'.closeCalls = session.closeCalls + 1 =>
       /\ session'.failures = 0
       /\ IF browser = "open"
            THEN session'.released = session.released + 1 /\ browser' = "closed"
            ELSE session'.released = session.released /\ browser' = browser
       /\ session'.released <= 1]_vars

\* three close() calls around a run, one of which released the session
C16_Witness ==
  /\ session.closeCalls = 3 /\ session.released = 1 /\ session.failures = 0
  /\ browser = "closed" /\ ncalls >= 1

\* C20: when the navigation of a page analysed by the quick, deep, element or
\* batch command failed, the process has printed an error and its exit code is
\* not 0.
C20_NavigationFailureExitsNonZero ==
  (cli.phase = "exited" /\ cli.navFailed) =>
     /\ cli.stderr # {}
     /\ cli.exitCode # 0

\* sum of a field of natural numbers over the per-page results of the batch
SumOf(collected, field) ==
  LET sum[n \in 0..Len(collected)] ==
        IF n = 0 THEN 0 ELSE sum[n - 1] + collected[n][field]
  IN sum[Len(collected)]
BatchWritten == cli.phase = "exited" /\ cli.command = "batch" /\ cli.exitCode = 0
\* C21: the summary the batch command writes has totalPages = number of configured
\* pages, totalIssues = sum of the issue counts of the per-page results and
\* criticalIssues = sum of their critical counts, also when a page failed to load.
C21_BatchTotals ==
  BatchWritten =>
    /\ Len(cli.collected) = cli.configured
    /\ cli.totalPages = Num(cli.configured)
    /\ cli.totalIssues = Num(SumOf(cli.collected, "issues"))
    /\ cli.criticalIssues = Num(SumOf(cli.collected, "criticals"))

QuickExited == cli.phase = "exited" /\ cli.command = "quick"
\* C22: the quick command exits with 1 exactly when summary.criticalIssues of the
\* result is above 0 or an error reached the catch of the action, with 0
\* otherwise; when it exits 1 for critical issues the orchestrator is closed.
C22_QuickExitCode ==
  QuickExited =>
    /\ cli.exitCode \in {0, 1}
    /\ cli.exitCode = 1 <=>
         ("cli" \in cli.stderr \/ (cli.critical.k = "number" /\ cli.critical.n > 0))
    /\ (cli.exitCode = 1 /\ "cli" \notin cli.stderr) => browser = "closed"

\* quick on a page with a broken image: report written, orchestrator closed, exit 1
C22_Witness ==
  /\ QuickExited /\ cli.exitCode = 1 /\ cli.stderr = {}
  /\ cli.critical = Num(1) /\ browser = "closed"

\* C26: a quick command run with --no-screenshots captures no screenshot: the
\* screenshots of its result stay empty.
C26_NoScreenshots ==
  (cli.command = "quick" /\ ~cli.captureScreenshots) => results.screenshots = <<>>

\* C23: after a deep or full run every value of result.scores is an integer
\* between 0 and 100.
C23_ScoresAreIntegers ==
  (Returned /\ tier \in {"deep", "full"}) =>
    \A key \in DOMAIN results.scores :
      /\ results.scores[key].k = "number"
      /\ results.scores[key].n \in 0..100

\* C28: once the summary is computed, priorityActions has min(3, criticalIssues)
\* entries.
C28_PriorityActionsMatchCritical ==
  runs >= 1 =>
    Len(results.summary.priorityActions.items) = Min(3, results.summary.criticalIssues.n)

\* a list whose critical bucket holds issues of severity high and impact high
C28_Witness ==
  /\ runs = 1
  /\ results.summary.criticalIssues = Num(2)
  /\ Len(results.summary.priorityActions.items) = 2
  /\ \A n \in 1..Len(results.issues) : results.issues[n].severity # "critical"

\* C29: an analyzePage call made while the session is not open (before
\* initialize() or after close()) rejects: no result with error set is returned
\* and no page is opened; a call made on an open session does not reject there.
C29_SessionFailureRejects ==
  /\ [](outcome = "threw" =>
          /\ pc = "done"
          /\ results.error = "undefined"
          /\ MainPage(ncalls) \notin openPages)
  /\ [][ncalls' = ncalls + 1 =>
          IF browser = "open" THEN outcome' = "pending"
          ELSE outcome' = "threw" /\ openPages' = openPages]_vars

\* a second call, made after close(), has rejected
C29_Witness ==
  /\ outcome = "threw" /\ browser = "closed" /\ ncalls = 2 /\ openPages = {}

Occurrences(seq, x) == Cardinality({n \in 1..Len(seq) : seq[n] = x})
AllFulfilled(batch) == \A n \in 1..Len(batch) : calls[batch[n]] = "fulfilled"
\* C30: after a deep run in which every analyzer fulfilled, each issue and each
\* recommendation of the accessibility fast pass and of the performance fast pass
\* is at least twice in the result, and the summary counts every occurrence.
C30_FastPassFindingsTwice ==
  (Returned /\ tier = "deep" /\ failed = "none" /\ AllFulfilled(QuickBatch \o DeepBatch)) =>
    LET fastIssues == quickCheck(page).issues \o quickMetrics(page).issues
        fastRecs == quickCheck(page).recommendations \o quickMetrics(page).recommendations
    IN /\ \A n \in 1..Len(fastIssues) : Occurrences(results.issues, fastIssues[n]) >= 2
       /\ \A n \in 1..Len(fastRecs) :
            Occurrences(results.recommendations, fastRecs[n]) >= 2
       /\ results.summary.totalIssues = Num(Len(results.issues))
       /\ results.summary.totalIssues.n >= 2 * Len(fastIssues)
       /\ results.summary.recommendations = Num(Len(results.recommendations))
       /\ results.summary.recommendations.n >= 2 * Len(fastRecs)

\* a deep run on a page whose only finding is images without alt text
C30_Witness ==
  /\ Returned /\ tier = "deep" /\ failed = "none"
  /\ AllFulfilled(QuickBatch \o DeepBatch)
  /\ page = {"imagesWithoutAlt"}
  /\ results.issues = <<Issue("accessibility", "high", "high", "Missing Alt Text"),
                         Issue("accessibility", "high", "high", "Missing Alt Text")>>
  /\ results.summary.totalIssues = Num(2)

C27_MonitorKeepsSessionOpen ==
  [][(cli.command = "monitor" /\ ncalls' = ncalls + 1) => browser = "open"]_vars

\* what the fulfilled quick analyzers of a call report on the page of its url
OwnFindings(k, field) ==
  LET acc[n \in 0..Len(QuickBatch)] ==
        IF n = 0 THEN <<>>
        ELSE IF k.calls[QuickBatch[n]] = "fulfilled"
               THEN acc[n - 1] \o Value(QuickBatch[n], k.url, "")[field]
               ELSE acc[n - 1]
  IN acc[Len(QuickBatch)]
\* C25: with two analyzePage calls in progress at the same time, the result of
\* each call holds exactly the findings of the analyzers of that call on the page
\* of that call's url (and that call's error), whatever the other call does, and
\* the page of a call stays open until that call closes it.
C25_CallsIsolated ==
  \A c \in ConcCalls :
    LET k == conc.call[c]
    IN /\ k.pc \in {"summary", "finally", "done"} =>
            /\ conc.results[k.obj].issues = OwnFindings(k, "issues")
            /\ conc.results[k.obj].recommendations = OwnFindings(k, "recommendations")
            /\ conc.results[k.obj].error
                 = (IF k.failed = "none" THEN "undefined" ELSE k.failed)
       /\ k.pc \in {"goto", "screenshot", "runQuick", "quickSettle", "summary", "catch",
                     "finally"} => MainPage(c) \in openPages
       /\ k.pc = "done" => MainPage(c) \notin openPages

\* both calls in progress on different urls, each with its own finding merged
C25_Witness ==
  /\ conc.call[1].pc = "finally" /\ conc.call[2].pc = "summary"
  /\ conc.call[1].url = {"brokenImages"} /\ conc.call[2].url = {"imagesWithoutAlt"}
  /\ Len(conc.results[1].issues) = 1 /\ Len(conc.results[2].issues) = 1
  /\ conc.results[1].issues # conc.results[2].issues
  /\ openPages = {MainPage(1), MainPage(2)}

====
